---------------------------- MODULE Spec2Model ----------------------------
(***************************************************************************)
(* Model of slack_spreadsheet.py: the Slack "message" event handler that   *)
(* extracts applicant fields from a notification text and appends one row  *)
(* to the worksheet named after the originating channel.                   *)
(*                                                                         *)
(* A string is a sequence of symbols.  A symbol is one character ("3",     *)
(* "-") or an indivisible piece of text the code only ever treats as a     *)
(* whole (a header label, a channel name, the trigger phrase).  Symbol     *)
(* names stand for the Japanese text of the source:                        *)
(*    "["    U+3010            "]"    U+3011                               *)
(*    "sama" the honorific     "yori" the connector before the job         *)
(*    "no"   the particle      "oubo" the trigger phrase (line 303)        *)
(*    "sai"  the age suffix    "sp"   a blank       "nl"  a line break     *)
(***************************************************************************)
EXTENDS Integers, Sequences, FiniteSets, TLC

\* Bound: number of message events delivered in one behaviour.
MaxEvents == 2

Events == 1..MaxEvents

(***************************************************************************)
(* Strings                                                                 *)
(***************************************************************************)
Digits == {"0", "1", "2", "3", "4", "5", "6", "7", "8", "9"}

Whitespace == {"sp", "nl"}

EmptyStr == << >>

\* re.sub(r"\D", "", s): every non-digit character removed.
sub_non_digits(s) ==
    SelectSeq(s, LAMBDA c : c \in Digits)

\* str.strip(): leading and trailing whitespace removed.
strip(s) ==
    LET keep == {i \in 1..Len(s) : s[i] \notin Whitespace}
    IN  IF keep = {} THEN EmptyStr
        ELSE LET lo == CHOOSE i \in keep : \A j \in keep : i <= j
                 hi == CHOOSE i \in keep : \A j \in keep : i >= j
             IN  SubSeq(s, lo, hi)

\* "<needle>" in text, for a one-symbol needle.
contains(text, sym) ==
    \E i \in 1..Len(text) : text[i] = sym

TriggerPhrase == "oubo"

(***************************************************************************)
(* JSON values as the service returns them.  val is the value's text.      *)
(***************************************************************************)
JStr(s) == [type |-> "str", val |-> s]

JNum(s) == [type |-> "num", val |-> s]

JList(s) == [type |-> "list", val |-> s]

\* Python truthiness of a value kept in merged_data: a string is true unless
\* empty, a number unless zero, a list unless empty.
truthy(v) ==
    IF v.type = "str" THEN v.val # EmptyStr
    ELSE IF v.type = "num" THEN v.val # <<"0">>
    ELSE v.val # <<"[", "]">>

\* dict.get(key, "") on a decoded JSON object.
dict_get(obj, key) ==
    IF key \in obj.keys THEN obj.fields[key] ELSE JStr(EmptyStr)

\* {**a, **b}: the keys of b win.
dict_merge(a, b) ==
    [k \in (DOMAIN a) \union (DOMAIN b) |-> IF k \in DOMAIN b THEN b[k] ELSE a[k]]

EmptyDict == [k \in {} |-> JStr(EmptyStr)]

SchemaFields ==
    {"name", "member_id", "age", "job", "experience",
     "address", "status", "cert", "education"}

(***************************************************************************)
(* extract_hospital_name: the text between the first bracket pair          *)
(***************************************************************************)
extract_hospital_name(text) ==
    LET opens == {i \in 1..Len(text) :
                     /\ text[i] = "["
                     /\ \E j \in (i + 2)..Len(text) :
                           /\ text[j] = "]"
                           /\ \A k \in (i + 1)..(j - 1) : text[k] # "]"}
    IN  IF opens = {} THEN EmptyStr
        ELSE LET i == CHOOSE x \in opens : \A y \in opens : x <= y
                 j == CHOOSE x \in (i + 2)..Len(text) :
                         /\ text[x] = "]"
                         /\ \A k \in (i + 1)..(x - 1) : text[k] # "]"
                 raw_name == strip(SubSeq(text, i + 1, j - 1))
             IN  IF raw_name # EmptyStr /\ raw_name[Len(raw_name)] = "sama"
                 THEN SubSeq(raw_name, 1, Len(raw_name) - 1)
                 ELSE raw_name

(***************************************************************************)
(* extract_media_name: group 1 of (.+?) yori (.+?) no oubo, searched       *)
(* leftmost, lazily; "." does not match a line break.                      *)
(***************************************************************************)
media_match(text, s, p) ==
    /\ s < p
    /\ p <= Len(text)
    /\ text[p] = "yori"
    /\ \A k \in s..(p - 1) : text[k] # "nl"
    /\ \E q \in (p + 2)..(Len(text) - 1) :
          /\ text[q] = "no"
          /\ text[q + 1] = TriggerPhrase
          /\ \A k \in (p + 1)..(q - 1) : text[k] # "nl"

media_pattern_matches(text) ==
    \E s \in 1..Len(text) : \E p \in 1..Len(text) : media_match(text, s, p)

media_pattern_group1(text) ==
    LET starts == {s \in 1..Len(text) : \E p \in 1..Len(text) : media_match(text, s, p)}
        s == CHOOSE x \in starts : \A y \in starts : x <= y
        ps == {p \in 1..Len(text) : media_match(text, s, p)}
        p == CHOOSE x \in ps : \A y \in ps : x <= y
    IN  strip(SubSeq(text, s, p - 1))

(***************************************************************************)
(* Replies of the chat-completion service (openai.ChatCompletion.create)   *)
(***************************************************************************)
\* Reply to the media-name prompt: the call raises, or returns a content.
MediaReplies ==
    { [ok |-> FALSE, content |-> EmptyStr],
      [ok |-> TRUE,  content |-> <<"sp", "J">>] }

\* A decoded JSON object: the keys it holds and, for those, their values.
Obj(keys, name, member_id, age, job, experience) ==
    [keys |-> keys,
     fields |-> [name |-> name, member_id |-> member_id, age |-> age,
                 job |-> job, experience |-> experience,
                 address |-> JStr(EmptyStr), status |-> JStr(EmptyStr),
                 cert |-> JStr(EmptyStr), education |-> JStr(EmptyStr)]]

NoObj == Obj({}, JStr(EmptyStr), JStr(EmptyStr), JStr(EmptyStr), JStr(EmptyStr), JStr(EmptyStr))

Sato == <<"S", "a", "t", "o">>

\* Reply to the profile prompt.  kind is
\*   "error"       the request raises (transport failure, malformed envelope)
\*   "not_json"    the content is no JSON text: json.loads raises
\*   "not_object"  the content is JSON but no object: .get raises
\*   "object"      the content is a JSON object, obj
ProfileReplies ==
    { [kind |-> "error", obj |-> NoObj],
      [kind |-> "not_json", obj |-> NoObj],
      [kind |-> "not_object", obj |-> NoObj],
      [kind |-> "object",
       obj |-> Obj(SchemaFields, JStr(Sato), JStr(<<"t", ":", "0", "8", "-", "1">>),
                   JStr(<<"3", "2", "sai">>), JStr(<<"D", "H">>), JList(<<"[", "A", "]">>))],
      [kind |-> "object",
       obj |-> Obj(SchemaFields, JStr(EmptyStr), JStr(EmptyStr), JStr(EmptyStr),
                   JStr(EmptyStr), JStr(EmptyStr))],
      [kind |-> "object",
       obj |-> Obj({"member_id", "age"}, JStr(EmptyStr), JStr(<<"1", "2">>), JStr(<<"sai">>),
                   JStr(EmptyStr), JStr(EmptyStr))],
      [kind |-> "object",
       obj |-> Obj({"name", "age"}, JStr(Sato), JStr(EmptyStr), JNum(<<"3", "2">>),
                   JStr(EmptyStr), JStr(EmptyStr))] }

(***************************************************************************)
(* parse_media_name_with_gpt, extract_media_name                           *)
(***************************************************************************)
parse_media_name_with_gpt(key, reply) ==
    IF ~key THEN EmptyStr
    ELSE IF ~reply.ok THEN EmptyStr
    ELSE strip(reply.content)

extract_media_name(text, key, reply) ==
    IF ~media_pattern_matches(text)
    THEN parse_media_name_with_gpt(key, reply)
    ELSE media_pattern_group1(text)

\* Number of service requests extract_media_name issues.
media_requests(text, key) ==
    IF ~media_pattern_matches(text) /\ key THEN 1 ELSE 0

(***************************************************************************)
(* parse_profile_info                                                      *)
(***************************************************************************)
\* The try block raises (lines 156-169): the request, json.loads, .get on a
\* value that is no object, or re.sub on an age that is no string.
profile_raises(reply) ==
    \/ reply.kind # "object"
    \/ dict_get(reply.obj, "age").type # "str"

parse_profile_info(key, reply) ==
    IF ~key THEN EmptyDict
    ELSE IF profile_raises(reply) THEN EmptyDict
    ELSE [k \in SchemaFields |->
            IF k = "age" THEN JStr(sub_non_digits(dict_get(reply.obj, "age").val))
            ELSE IF k = "experience" THEN JStr(dict_get(reply.obj, "experience").val)
            ELSE dict_get(reply.obj, k)]

\* Number of service requests parse_profile_info issues.
profile_requests(key) ==
    IF key THEN 1 ELSE 0

(***************************************************************************)
(* The spreadsheet: worksheets by title, each a list of rows.  A row's     *)
(* cells are kept without trailing empty cells, as row_values returns      *)
(* them.  by and what record who wrote the row (0: it was there before).   *)
(***************************************************************************)
Columns ==
    <<"hospital_name", "media_name", "name", "member_id", "age", "job",
      "experience", "address", "status", "cert", "education">>

\* expected_header of ensure_header.
expected_header ==
    [i \in 1..Len(Columns) |-> <<Columns[i]>>]

\* header of get_or_create_worksheet.
header ==
    [i \in 1..Len(Columns) |-> <<Columns[i]>>]

\* Width of the range 'A1:K1'.
HeaderRangeWidth == 11

RECURSIVE trim_row(_)
trim_row(cells) ==
    IF cells = << >> THEN << >>
    ELSE IF cells[Len(cells)] = EmptyStr THEN trim_row(SubSeq(cells, 1, Len(cells) - 1))
    ELSE cells

Row(cells, by, what) ==
    [cells |-> trim_row(cells), by |-> by, what |-> what]

\* worksheet.row_values(1)
row_values_1(sheet) ==
    IF Len(sheet) = 0 THEN << >> ELSE sheet[1].cells

\* Mutant of update_A1_K1: the range is one row too low (A2:K2).
update_A2_K2(sheet, values, by) ==
    IF Len(sheet) < 2 THEN Append(sheet, [cells |-> values, by |-> by, what |-> "header"])
    ELSE [sheet EXCEPT ![2].cells = values]

\* worksheet.update('A1:K1', [values]): the first HeaderRangeWidth cells of
\* row 1 are overwritten, the cells to their right are left as they are.
update_A1_K1(sheet, values, by) ==
    IF Len(sheet) = 0 THEN << Row(values, by, "header") >>
    ELSE [sheet EXCEPT ![1].cells =
             trim_row(values \o SubSeq(@, HeaderRangeWidth + 1, Len(@)))]

\* Mutant of append_row_to: the row is sent twice.
append_row_twice(sheet, values, by, what) ==
    Append(Append(sheet, Row(values, by, what)), Row(values, by, what))

\* worksheet.append_row(values): one row after the last row of the table.
append_row_to(sheet, values, by, what) ==
    Append(sheet, Row(values, by, what))

\* data.get(key, "") of write_to_spreadsheet, as the cell text.
data_get(data, key) ==
    IF key \in DOMAIN data THEN data[key].val ELSE EmptyStr

\* new_row of write_to_spreadsheet.
new_row(data) ==
    [i \in 1..Len(Columns) |-> data_get(data, Columns[i])]

(***************************************************************************)
(* The platform: channels and their names (unique in a workspace)          *)
(***************************************************************************)
Channels == {"C1", "C2"}

ChannelName(channel) ==
    IF channel = "C1" THEN <<"general">> ELSE <<"random">>

UnknownChannel == <<"UnknownChannel">>

\* Mutant of slack_channel_name: the name does not depend on the channel.
slack_channel_name_fixed(channel, lookup_ok) ==
    IF lookup_ok THEN <<"general">> ELSE UnknownChannel

\* slack_channel_name of handle_message_events: the name conversations_info
\* gives, or the default when the call raises.
slack_channel_name(channel, lookup_ok) ==
    IF lookup_ok THEN ChannelName(channel) ELSE UnknownChannel

\* channel_name of write_to_spreadsheet.
write_channel_name(data) ==
    IF "channel_name" \in DOMAIN data THEN data["channel_name"].val ELSE UnknownChannel

(***************************************************************************)
(* Inbound texts                                                           *)
(***************************************************************************)
InboundTexts ==
    { <<"[", "A", "sama", "]", "nl", "J", "sp", "yori", "sp", "D", "no", "oubo">>,
      <<"B", "oubo">>,
      <<"A", "sp", "B">> }

(***************************************************************************)
(* Worksheets the spreadsheet may hold before the first event              *)
(***************************************************************************)
OldRecord ==
    Row(<< <<"A">>, <<"J">>, <<"K", "a", "t", "o">>, <<"7">>, <<"4", "0">> >>, 0, "old")

\* Header of an earlier schema version: fewer columns.
ShorterHeader ==
    Row(<< <<"hospital_name">>, <<"name">>, <<"member_id">> >>, 0, "old")

\* Header of a later schema version: one more column.
LongerHeader ==
    Row(expected_header \o << <<"visit_date">> >>, 0, "old")

CurrentHeader ==
    Row(expected_header, 0, "old")

InitialSheets ==
    { [t \in {} |-> << >>],
      [t \in {<<"general">>} |-> << >>],
      [t \in {<<"general">>} |-> <<CurrentHeader, OldRecord>>],
      [t \in {<<"general">>, UnknownChannel} |-> <<ShorterHeader, OldRecord>>],
      [t \in {<<"general">>} |-> <<LongerHeader, OldRecord>>] }

(***************************************************************************)
(* State                                                                   *)
(***************************************************************************)
VARIABLES
    OPENAI_API_KEY,  \* whether the environment gives a service key
    sheets,          \* the spreadsheet: title -> rows
    posted,          \* replies delivered to Slack threads
    pc,              \* per event: where its handler stands
    event,           \* per event: body["event"] (text, channel, ts)
    frame,           \* per event: the handler's and the writer's locals
    hist             \* per event: what its handler has done so far

vars == <<OPENAI_API_KEY, sheets, posted, pc, event, frame, hist>>

NoEvent == [text |-> EmptyStr, channel |-> "C1", ts |-> 0]

NoFrame ==
    [merged_data |-> EmptyDict, worksheet |-> EmptyStr]

NoHist ==
    [eligible |-> FALSE, profile_failed |-> FALSE, source |-> NoObj,
     parsed_fields |-> {},
     profile_requests |-> 0, media_requests |-> 0, lookup_ok |-> FALSE,
     write_calls |-> 0, store_failed |-> FALSE, created |-> FALSE,
     says |-> << >>]

Init ==
    /\ OPENAI_API_KEY \in BOOLEAN
    /\ sheets \in InitialSheets
    /\ posted = {}
    /\ pc = [e \in Events |-> "none"]
    /\ event = [e \in Events |-> NoEvent]
    /\ frame = [e \in Events |-> NoFrame]
    /\ hist = [e \in Events |-> NoHist]

(***************************************************************************)
(* handle_message_events, up to the call of write_to_spreadsheet           *)
(***************************************************************************)
\* Mutant of eligible: the gate lets every text through.
eligible_always(text) ==
    TRUE

\* Line 303: the text holds the trigger phrase.
eligible(text) ==
    contains(text, TriggerPhrase)

\* Lines 309-313 and 323.
build_merged_data(hospital_name, media_name, parsed_profile, channel_name) ==
    dict_merge(dict_merge([hospital_name |-> JStr(hospital_name),
                           media_name |-> JStr(media_name)],
                          parsed_profile),
               [channel_name |-> JStr(channel_name)])

\* Line 325 raises KeyError: a key it reads is not in merged_data.
signal_key_error(data) ==
    \/ "name" \notin DOMAIN data
    \/ (~truthy(data["name"]) /\ "member_id" \notin DOMAIN data)

\* Line 325: merged_data["name"] or merged_data["member_id"].
has_signal(data) ==
    truthy(data["name"]) \/ truthy(data["member_id"])

\* Where the handler stands after line 325.
after_gate(data) ==
    IF signal_key_error(data) THEN "raised"
    ELSE IF has_signal(data) THEN "write_to_spreadsheet"
    ELSE "done"

handle_message_events(e) ==
    /\ pc[e] = "none"
    /\ \A d \in Events : d < e => pc[d] # "none"
    /\ \E text \in InboundTexts, channel_id \in Channels, lookup_ok \in BOOLEAN,
          media_reply \in MediaReplies, profile_reply \in ProfileReplies :
          /\ event' = [event EXCEPT ![e] = [text |-> text, channel |-> channel_id, ts |-> e]]
          /\ IF ~eligible(text)
             THEN /\ pc' = [pc EXCEPT ![e] = "done"]
                  /\ UNCHANGED <<frame, hist>>
             ELSE LET hospital_name == extract_hospital_name(text)
                      media_name == extract_media_name(text, OPENAI_API_KEY, media_reply)
                      parsed_profile == parse_profile_info(OPENAI_API_KEY, profile_reply)
                      merged_data ==
                          build_merged_data(hospital_name, media_name, parsed_profile,
                                            slack_channel_name(channel_id, lookup_ok))
                      failed == ~OPENAI_API_KEY \/ profile_raises(profile_reply)
                  IN  /\ pc' = [pc EXCEPT ![e] = after_gate(merged_data)]
                      /\ frame' = [frame EXCEPT ![e] =
                                      IF after_gate(merged_data) = "write_to_spreadsheet"
                                      THEN [NoFrame EXCEPT !.merged_data = merged_data]
                                      ELSE NoFrame]
                      /\ hist' = [hist EXCEPT
                                    ![e].eligible = TRUE,
                                    ![e].profile_failed = failed,
                                    ![e].source = IF failed THEN NoObj ELSE profile_reply.obj,
                                    ![e].parsed_fields = DOMAIN parsed_profile,
                                    ![e].profile_requests = profile_requests(OPENAI_API_KEY),
                                    ![e].media_requests = media_requests(text, OPENAI_API_KEY),
                                    ![e].lookup_ok = lookup_ok]
    /\ UNCHANGED <<OPENAI_API_KEY, sheets, posted>>

(***************************************************************************)
(* write_to_spreadsheet and get_or_create_worksheet, one store call a step *)
(***************************************************************************)
\* A store call raises: the exception reaches the except clause of line 334.
store_raises(e) ==
    /\ pc' = [pc EXCEPT ![e] = "except"]
    /\ hist' = [hist EXCEPT ![e].store_failed = TRUE]
    /\ UNCHANGED <<sheets, posted, frame>>

\* Lines 268-272: get_gspread_client, open_by_key, channel_name.
open_by_key(e) ==
    /\ pc[e] = "write_to_spreadsheet"
    /\ \E ok \in BOOLEAN :
          IF ok
          THEN /\ pc' = [pc EXCEPT ![e] = "worksheet"]
               /\ frame' = [frame EXCEPT ![e].worksheet = write_channel_name(frame[e].merged_data)]
               /\ hist' = [hist EXCEPT ![e].write_calls = @ + 1]
               /\ UNCHANGED <<sheets, posted>>
          ELSE /\ pc' = [pc EXCEPT ![e] = "except"]
               /\ hist' = [hist EXCEPT ![e].write_calls = @ + 1, ![e].store_failed = TRUE]
               /\ UNCHANGED <<sheets, posted, frame>>
    /\ UNCHANGED <<OPENAI_API_KEY, event>>

\* Lines 229-235: sh.worksheet(sheet_title).
sh_worksheet(e) ==
    /\ pc[e] = "worksheet"
    /\ \E ok \in BOOLEAN :
          IF ~ok THEN store_raises(e)
          ELSE /\ pc' = [pc EXCEPT ![e] =
                            IF frame[e].worksheet \in DOMAIN sheets
                            THEN "row_values" ELSE "add_worksheet"]
               /\ UNCHANGED <<sheets, posted, frame, hist>>
    /\ UNCHANGED <<OPENAI_API_KEY, event>>

\* Line 234: sh.add_worksheet; the store refuses a title it already holds.
add_worksheet(e) ==
    /\ pc[e] = "add_worksheet"
    /\ \E ok \in BOOLEAN :
          IF ~ok \/ frame[e].worksheet \in DOMAIN sheets
          THEN store_raises(e)
          ELSE /\ sheets' = [t \in (DOMAIN sheets) \union {frame[e].worksheet} |->
                                IF t = frame[e].worksheet THEN << >> ELSE sheets[t]]
               /\ pc' = [pc EXCEPT ![e] = "append_header"]
               /\ hist' = [hist EXCEPT ![e].created = TRUE]
               /\ UNCHANGED <<posted, frame>>
    /\ UNCHANGED <<OPENAI_API_KEY, event>>

\* Lines 238-252: the header row of a new worksheet.
append_header(e) ==
    /\ pc[e] = "append_header"
    /\ \E ok \in BOOLEAN :
          IF ~ok THEN store_raises(e)
          ELSE /\ sheets' = [sheets EXCEPT ![frame[e].worksheet] =
                                append_row_to(@, header, e, "header")]
               /\ pc' = [pc EXCEPT ![e] = "row_values"]
               /\ UNCHANGED <<posted, frame, hist>>
    /\ UNCHANGED <<OPENAI_API_KEY, event>>

\* ensure_header, lines 215-217: read row 1 and compare.
row_values(e) ==
    /\ pc[e] = "row_values"
    /\ \E ok \in BOOLEAN :
          IF ~ok THEN store_raises(e)
          ELSE LET current_header == row_values_1(sheets[frame[e].worksheet])
               IN  /\ pc' = [pc EXCEPT ![e] =
                                IF current_header # expected_header
                                THEN "update" ELSE "append_row"]
                   /\ UNCHANGED <<sheets, posted, frame, hist>>
    /\ UNCHANGED <<OPENAI_API_KEY, event>>

\* ensure_header, line 219: overwrite A1:K1.
update(e) ==
    /\ pc[e] = "update"
    /\ \E ok \in BOOLEAN :
          IF ~ok THEN store_raises(e)
          ELSE /\ sheets' = [sheets EXCEPT ![frame[e].worksheet] =
                                update_A1_K1(@, expected_header, e)]
               /\ pc' = [pc EXCEPT ![e] = "append_row"]
               /\ UNCHANGED <<posted, frame, hist>>
    /\ UNCHANGED <<OPENAI_API_KEY, event>>

\* Lines 278-291: the record's row.
append_row(e) ==
    /\ pc[e] = "append_row"
    /\ \E ok \in BOOLEAN :
          IF ~ok THEN store_raises(e)
          ELSE /\ sheets' = [sheets EXCEPT ![frame[e].worksheet] =
                                append_row_to(@, new_row(frame[e].merged_data), e, "record")]
               /\ pc' = [pc EXCEPT ![e] = "say_success"]
               /\ UNCHANGED <<posted, frame, hist>>
    /\ UNCHANGED <<OPENAI_API_KEY, event>>

(***************************************************************************)
(* The replies of handle_message_events                                    *)
(***************************************************************************)
\* thread_ts of the handler (line 300).
thread_ts(e) ==
    event[e].ts

\* say(text=..., thread_ts=thread_ts): a reply in the event's channel.
Reply(e, kind) ==
    [channel |-> event[e].channel, thread_ts |-> thread_ts(e), kind |-> kind]

\* The handler returns or raises: its locals are gone.
leave(e, how) ==
    /\ pc' = [pc EXCEPT ![e] = how]
    /\ frame' = [frame EXCEPT ![e] = NoFrame]

\* Lines 330-333: say(success) inside the try block.
say_success(e) ==
    /\ pc[e] = "say_success"
    /\ \E ok \in BOOLEAN :
          /\ hist' = [hist EXCEPT ![e].says =
                         Append(@, [reply |-> Reply(e, "success"), ok |-> ok])]
          /\ IF ok
             THEN /\ posted' = posted \union {Reply(e, "success")}
                  /\ leave(e, "done")
             ELSE /\ pc' = [pc EXCEPT ![e] = "except"]
                  /\ UNCHANGED <<posted, frame>>
    /\ UNCHANGED <<OPENAI_API_KEY, sheets, event>>

\* Lines 334-342: the except clause; an exception of its say leaves the handler.
say_failure(e) ==
    /\ pc[e] = "except"
    /\ \E ok \in BOOLEAN :
          /\ hist' = [hist EXCEPT ![e].says =
                         Append(@, [reply |-> Reply(e, "failure"), ok |-> ok])]
          /\ IF ok
             THEN /\ posted' = posted \union {Reply(e, "failure")}
                  /\ leave(e, "done")
             ELSE /\ leave(e, "raised")
                  /\ UNCHANGED posted
    /\ UNCHANGED <<OPENAI_API_KEY, sheets, event>>

Next ==
    \E e \in Events :
        \/ handle_message_events(e)
        \/ open_by_key(e)
        \/ sh_worksheet(e)
        \/ add_worksheet(e)
        \/ append_header(e)
        \/ row_values(e)
        \/ update(e)
        \/ append_row(e)
        \/ say_success(e)
        \/ say_failure(e)

Spec == Init /\ [][Next]_vars

(***************************************************************************)
(* Vocabulary of the properties                                            *)
(***************************************************************************)
WritePcs ==
    {"write_to_spreadsheet", "worksheet", "add_worksheet", "append_header",
     "row_values", "update", "append_row"}

finished(e) ==
    pc[e] \in {"done", "raised"}

\* The places (title, row number) of the rows event e wrote.
rows_by(e) ==
    {tr \in UNION {{<<t, i>> : i \in 1..Len(sheets[t])} : t \in DOMAIN sheets} :
        sheets[tr[1]][tr[2]].by = e}

record_rows_by(e) ==
    {tr \in rows_by(e) : sheets[tr[1]][tr[2]].what = "record"}

cell(row, i) ==
    IF i <= Len(row.cells) THEN row.cells[i] ELSE EmptyStr

\* The text of event e holds the trigger phrase.
has_trigger(e) ==
    \E i \in 1..Len(event[e].text) : event[e].text[i] = "oubo"

\* The extraction of event e gave a non-empty name or member id.
signal_in(e) ==
    /\ ~hist[e].profile_failed
    /\ \/ ("name" \in hist[e].source.keys /\ hist[e].source.fields["name"].val # << >>)
       \/ ("member_id" \in hist[e].source.keys
              /\ hist[e].source.fields["member_id"].val # << >>)

\* Every store call of event e's write step has succeeded.
stored(e) ==
    /\ hist[e].write_calls = 1
    /\ ~hist[e].store_failed
    /\ pc[e] \in {"say_success", "except", "done", "raised"}

\* The partition of the event's routing key: the one named after its channel.
key_partition(e) ==
    IF event[e].channel = "C1" THEN <<"general">> ELSE <<"random">>

\* The partition the handler resolved: the channel's name, or the default
\* when the lookup of the name failed.
resolved_partition(e) ==
    IF hist[e].lookup_ok THEN key_partition(e) ELSE <<"UnknownChannel">>

success_reply(e) ==
    [channel |-> event[e].channel, thread_ts |-> event[e].ts, kind |-> "success"]

failure_reply(e) ==
    [channel |-> event[e].channel, thread_ts |-> event[e].ts, kind |-> "failure"]

says_of(e, kind) ==
    {i \in 1..Len(hist[e].says) : hist[e].says[i].reply.kind = kind}

(***************************************************************************)
(* C1                                                                      *)
(***************************************************************************)
\* C1: when the model-assisted extraction of a triggering event fails (no
\* service key, the request raises, the reply cannot be parsed), the handler
\* does not raise: it goes on with an all-empty model result.
C1_ExtractionFailureNeverAborts ==
    \A e \in Events :
        (hist[e].eligible /\ hist[e].profile_failed) => pc[e] # "raised"

C3_OnlyEligibleSignalEventsWriteOrReply ==
    \A e \in Events :
        LET touched ==
                \/ pc[e] \in WritePcs \union {"say_success", "except"}
                \/ hist[e].write_calls > 0
                \/ hist[e].created
                \/ rows_by(e) # {}
                \/ hist[e].says # << >>
                \/ \E r \in posted : r.thread_ts = e
        IN  /\ touched => (has_trigger(e) /\ signal_in(e))
            /\ (pc[e] # "none" /\ ~(has_trigger(e) /\ signal_in(e))) =>
                  (finished(e) /\ ~touched)

\* C3 witness: one event with the trigger phrase but neither name nor member
\* id has ended silently, while another event has written its row.
C3_Witness ==
    \E e \in Events, f \in Events :
        /\ has_trigger(e) /\ ~hist[e].profile_failed /\ ~signal_in(e)
        /\ pc[e] = "done"
        /\ record_rows_by(f) # {}
        /\ success_reply(f) \in posted

(***************************************************************************)
(* C4                                                                      *)
(***************************************************************************)
\* C4: when a store call of the write step fails, the handler posts exactly
\* one failure notice threaded to the message, never calls the writer again,
\* attempts no success acknowledgment, and does not raise.
C4_StoreFailureReportedOnce ==
    \A e \in Events :
        (finished(e) /\ hist[e].store_failed) =>
            /\ pc[e] # "raised"
            /\ hist[e].write_calls = 1
            /\ says_of(e, "success") = {}
            /\ Cardinality({i \in says_of(e, "failure") : hist[e].says[i].ok}) = 1
            /\ failure_reply(e) \in posted

C6_HeaderExactAfterResolve ==
    \A e \in Events :
        pc[e] = "append_row" =>
            row_values_1(sheets[frame[e].worksheet]) = expected_header

(***************************************************************************)
(* C7                                                                      *)
(***************************************************************************)
data_region(sheet) ==
    [i \in 1..(IF Len(sheet) = 0 THEN 0 ELSE Len(sheet) - 1) |-> sheet[i + 1].cells]

is_prefix(a, b) ==
    /\ Len(a) <= Len(b)
    /\ \A i \in 1..Len(a) : a[i] = b[i]

\* C7: no step removes, changes or reorders a row of a data region (the rows
\* below row 1): every worksheet stays, and its data region before the step
\* is a prefix of its data region after it.
C7_DataRegionOnlyGrows ==
    [][\A t \in DOMAIN sheets :
          /\ t \in DOMAIN sheets'
          /\ is_prefix(data_region(sheets[t]), data_region(sheets'[t]))]_vars

\* C7 witness: a worksheet whose stale header was overwritten still has its
\* old record in row 2, and an event's record after it in row 3.
C7_Witness ==
    \E t \in DOMAIN sheets :
        /\ Len(sheets[t]) >= 3
        /\ sheets[t][1].cells = expected_header
        /\ sheets[t][1].by = 0
        /\ sheets[t][2] = OldRecord
        /\ sheets[t][3].by # 0
        /\ sheets[t][3].what = "record"

(***************************************************************************)
(* C8                                                                      *)
(***************************************************************************)
\* C8: in the record handed to the writer and in every record row, the
\* member id and the age are the extracted values without their non-digits.
C8_MemberIdAndAgeDigitsOnly ==
    \A e \in Events :
        /\ pc[e] \in WritePcs =>
              /\ frame[e].merged_data["member_id"].val =
                    sub_non_digits(dict_get(hist[e].source, "member_id").val)
              /\ frame[e].merged_data["age"].val =
                    sub_non_digits(dict_get(hist[e].source, "age").val)
        /\ \A tr \in record_rows_by(e) :
              /\ \A i \in 1..Len(cell(sheets[tr[1]][tr[2]], 4)) :
                    cell(sheets[tr[1]][tr[2]], 4)[i] \in Digits
              /\ \A i \in 1..Len(cell(sheets[tr[1]][tr[2]], 5)) :
                    cell(sheets[tr[1]][tr[2]], 5)[i] \in Digits

\* The part of C8 the code does keep: the age is digits only.
AgeDigitsOnly ==
    \A e \in Events :
        /\ pc[e] \in WritePcs =>
              frame[e].merged_data["age"].val =
                  sub_non_digits(dict_get(hist[e].source, "age").val)
        /\ \A tr \in record_rows_by(e) :
              \A i \in 1..Len(cell(sheets[tr[1]][tr[2]], 5)) :
                  cell(sheets[tr[1]][tr[2]], 5)[i] \in Digits

(***************************************************************************)
(* C9                                                                      *)
(***************************************************************************)
\* C9: when the extractor's request fails, it has issued exactly two requests
\* (one retry) and returned a record with every schema field; it never
\* issues more than two.
C9_RetryOnceThenAllEmpty ==
    \A e \in Events :
        /\ hist[e].profile_requests <= 2
        /\ (hist[e].eligible /\ OPENAI_API_KEY /\ hist[e].profile_failed) =>
              /\ hist[e].profile_requests = 2
              /\ hist[e].parsed_fields = SchemaFields

(***************************************************************************)
(* C10                                                                     *)
(***************************************************************************)
\* C10: at most one reply is attempted per event, and a failure notice is
\* attempted only for an event that has no record row.
C10_RepliesExclusive ==
    \A e \in Events :
        /\ Len(hist[e].says) <= 1
        /\ says_of(e, "failure") # {} => record_rows_by(e) = {}
=============================================================================
